---- MODULE Spec2Model ----
\* A model of src/src/dispatcher.ts: the Dispatcher (run registry), the child
\* processes it starts with execFile, and the completion callback of each run.
\*
\* JavaScript values are written as strings: "undefined" is an absent optional
\* field, "null" is the error argument of a callback that reports no error, ""
\* is the empty string, and "false" stands for a decoded value that is defined
\* but falsy (false, 0, "" or null, e.g. what a JSON decoder makes of the output
\* "false"). An optional Date is a sequence: <<>> when absent, <<t>> when set.
EXTENDS Integers, Sequences, FiniteSets

\* ---------------------------------------------------------------- bounds

\* Successful start calls in one behaviour (each creates one run).
MaxRuns == 2
\* start calls with a suite the catalog does not know.
MaxFailedStarts == 1
\* The clock runs from 0 to MaxTime.
MaxTime == 2

\* ---------------------------------------------------------------- values

Undefined == "undefined"
Null == "null"

\* JavaScript truthiness of the values the model uses (if (x) ...).
Falsy == {Undefined, Null, "", "false"}
Truthy(v) == v \notin Falsy

NoDate == <<>>
Date(t) == <<t>>
GetTime(d) == d[1]

\* The suites the catalog knows, and the suite names a caller may pass.
KnownSuites == {"unit", "flaky"}
Suites == KnownSuites \cup {"missing"}

\* What a completion callback may be handed by execFile.
CbErrors == {Null, "ExecError"}
Stdouts == {"", "out"}
Stderrs == {"", "boom"}

\* What the catalog's decoder may do with a standard output: throw a decode
\* error, or return a value (a structured result, or a falsy value).
DecodeError == "DecodeError"
ResultValues == {"R1", "false"}
DecodeOutcomes ==
  {[throws |-> TRUE, val |-> DecodeError]}
    \cup {[throws |-> FALSE, val |-> v] : v \in ResultValues}

\* new Error(message)
NewError(message) == "Error:" \o message

\* ---------------------------------------------------------------- ids

Digit(d) ==
  CASE d = 0 -> "0" [] d = 1 -> "1" [] d = 2 -> "2" [] d = 3 -> "3"
    [] d = 4 -> "4" [] d = 5 -> "5" [] d = 6 -> "6" [] d = 7 -> "7"
    [] d = 8 -> "8" [] d = 9 -> "9"

\* Number.prototype.toString of a non-negative integer: its decimal digits.
RECURSIVE ToString(_)
ToString(n) == IF n < 10 THEN Digit(n) ELSE ToString(n \div 10) \o Digit(n % 10)

\* The ids a caller may pass to getStatus and cancel: those start can issue
\* within the bounds, and "0", which start never issues.
IdNumbers == 0..MaxRuns
Ids == {ToString(n) : n \in IdNumbers}

\* An id read as a number.
ParseInt(s) == CHOOSE n \in IdNumbers : ToString(n) = s

\* ---------------------------------------------------------------- state

VARIABLES
  runList,    \* Dispatcher.runList: id -> Run (suite, started, finished, result, error)
  nextId,     \* Dispatcher.nextId
  procs,      \* id -> the ChildProcess execFile returned for that run
  now,        \* the clock new Date() reads
  resp,       \* the call made in this step and what it returned or threw
  cbArgs,     \* the completion callback run in this step and its arguments
  issued,     \* history: the starts that returned, in order: [id, suite]
  startCalls, \* history: the number of start calls made, failing ones included
  cancelReq,  \* history: id -> "never", "live" (cancel called while the process
              \*   ran) or "dead" (cancel called only after the process exited)
  completion  \* history: id -> what the completion callback of the run was given

vars == <<runList, nextId, procs, now, resp, cbArgs, issued, startCalls,
          cancelReq, completion>>

NoResp ==
  [op |-> "none", arg |-> "", thrown |-> "none", id |-> "", suite |-> "",
   status |-> "", runtime |-> 0, error |-> Undefined, result |-> Undefined]

NoCb ==
  [id |-> "", miss |-> FALSE, error |-> Null, stdout |-> "", stderr |-> "",
   decoded |-> "notCalled"]

NoCompletion == [fired |-> FALSE, error |-> Null, decoded |-> "notCalled"]

\* Map.prototype.set
MapSet(m, k, v) == [x \in (DOMAIN m) \cup {k} |-> IF x = k THEN v ELSE m[x]]

Init ==
  /\ runList = [x \in {} |-> x]
  /\ nextId = 1
  /\ procs = [x \in {} |-> x]
  /\ now = 0
  /\ resp = NoResp
  /\ cbArgs = NoCb
  /\ issued = <<>>
  /\ startCalls = 0
  /\ cancelReq = [x \in {} |-> x]
  /\ completion = [x \in {} |-> x]

\* ---------------------------------------------------------------- catalog

\* TestModule.has
Has(suite) == suite \in KnownSuites

\* ---------------------------------------------------------------- platform

\* cp.execFile: the child process it returns. phase is "running" while the
\* process handle is open, "exited" once the process has exited and its handle
\* is closed, "closed" once the completion callback has been run.
ExecFile == [phase |-> "running", killed |-> FALSE]

\* Mutant of Kill: killed is set whether or not the process still runs.
KillAlways(p) == [p EXCEPT !.killed = TRUE]

\* Mutant of Kill: the signal is sent but killed is never set.
KillNoFlag(p) == p

\* ChildProcess.kill: the signal is delivered, and killed set, only while the
\* handle is open; on a process that has exited kill does nothing.
Kill(p) ==
  IF p.phase = "running" THEN [p EXCEPT !.killed = TRUE] ELSE p

\* ---------------------------------------------------------------- Dispatcher

\* Mutant of GenerateId: the counter is read but not incremented.
GenerateIdNoInc == [id |-> ToString(nextId), nextId |-> nextId]

\* Dispatcher.generateId: (this.nextId++).toString()
GenerateId == [id |-> ToString(nextId), nextId |-> nextId + 1]

\* The Run start registers.
NewRun(suite) ==
  [suite |-> suite, started |-> Date(now), finished |-> NoDate,
   result |-> Undefined, error |-> Undefined]

\* Mutant of StartKnown: the id is returned without the Run being registered.
StartKnownNoRegister(suite) ==
  LET g == GenerateId IN
  /\ nextId' = g.nextId
  /\ procs' = MapSet(procs, g.id, ExecFile)
  /\ runList' = runList
  /\ resp' = [NoResp EXCEPT !.op = "start", !.arg = suite, !.id = g.id]
  /\ issued' = Append(issued, [id |-> g.id, suite |-> suite])
  /\ cancelReq' = MapSet(cancelReq, g.id, "never")
  /\ completion' = MapSet(completion, g.id, NoCompletion)

\* Dispatcher.start with a suite the catalog knows.
StartKnown(suite) ==
  LET g == GenerateId IN
  /\ nextId' = g.nextId
  /\ procs' = MapSet(procs, g.id, ExecFile)
  /\ runList' = MapSet(runList, g.id, NewRun(suite))
  /\ resp' = [NoResp EXCEPT !.op = "start", !.arg = suite, !.id = g.id]
  /\ issued' = Append(issued, [id |-> g.id, suite |-> suite])
  /\ cancelReq' = MapSet(cancelReq, g.id, "never")
  /\ completion' = MapSet(completion, g.id, NoCompletion)

\* Mutant of StartUnknown: the id is generated before the catalog is asked.
StartUnknownConsumesId(suite) ==
  /\ resp' = [NoResp EXCEPT !.op = "start", !.arg = suite, !.thrown = "NotFound"]
  /\ nextId' = nextId + 1
  /\ UNCHANGED <<runList, procs, issued, cancelReq, completion>>

\* Mutant of StartUnknown: the process is started before the catalog is asked.
StartUnknownSpawns(suite) ==
  /\ resp' = [NoResp EXCEPT !.op = "start", !.arg = suite, !.thrown = "NotFound"]
  /\ procs' = MapSet(procs, ToString(nextId), ExecFile)
  /\ UNCHANGED <<runList, nextId, issued, cancelReq, completion>>

\* Dispatcher.start with a suite the catalog does not know: throw NotFound.
StartUnknown(suite) ==
  /\ resp' = [NoResp EXCEPT !.op = "start", !.arg = suite, !.thrown = "NotFound"]
  /\ UNCHANGED <<runList, nextId, procs, issued, cancelReq, completion>>

\* Dispatcher.start
Start(suite) ==
  /\ IF Has(suite)
       THEN Len(issued) < MaxRuns /\ StartKnown(suite)
       ELSE startCalls - Len(issued) < MaxFailedStarts /\ StartUnknown(suite)
  /\ startCalls' = startCalls + 1
  /\ cbArgs' = NoCb
  /\ UNCHANGED now

\* The runtime getStatus reports for a run with an outcome.
FinishedRuntime(run) == GetTime(run.finished) - GetTime(run.started)

\* Mutant of ActiveRuntime: the subtraction is the wrong way round.
ActiveRuntimeReversed(run) == GetTime(run.started) - now

\* The runtime getStatus reports for an active run.
ActiveRuntime(run) == now - GetTime(run.started)

\* Mutant of ErrorStatus: the two arms of the conditional are swapped.
ErrorStatusSwapped(id) == IF procs[id].killed THEN "error" ELSE "cancelled"

\* The status getStatus reports for a run with an error.
ErrorStatus(id) == IF procs[id].killed THEN "cancelled" ELSE "error"

\* What Dispatcher.getStatus returns or throws in the current state.
GetStatus(id) ==
  IF id \notin DOMAIN runList
    THEN [NoResp EXCEPT !.thrown = "NotFound"]
    ELSE
      LET run == runList[id] IN
      IF Truthy(run.error) THEN
        IF run.finished = NoDate
          THEN [NoResp EXCEPT !.thrown = "TypeError"]
          ELSE [NoResp EXCEPT
                  !.suite = run.suite,
                  !.status = ErrorStatus(id),
                  !.runtime = FinishedRuntime(run),
                  !.error = run.error]
      ELSE IF Truthy(run.result) THEN
        IF run.finished = NoDate
          THEN [NoResp EXCEPT !.thrown = "TypeError"]
          ELSE [NoResp EXCEPT
                  !.suite = run.suite,
                  !.status = "completed",
                  !.runtime = FinishedRuntime(run),
                  !.result = run.result]
      ELSE [NoResp EXCEPT
              !.suite = run.suite,
              !.status = "active",
              !.runtime = ActiveRuntime(run)]

\* Mutant of GetStatusCall: the first read of an active run stamps it finished.
GetStatusCallStamps(id) ==
  /\ resp' = [GetStatus(id) EXCEPT !.op = "getStatus", !.arg = id]
  /\ cbArgs' = NoCb
  /\ runList' =
       IF id \in DOMAIN runList /\ runList[id].finished = NoDate
         THEN [runList EXCEPT ![id].finished = Date(now)]
         ELSE runList
  /\ UNCHANGED <<nextId, procs, now, issued, startCalls, cancelReq, completion>>

\* Dispatcher.getStatus, called.
GetStatusCall(id) ==
  /\ resp' = [GetStatus(id) EXCEPT !.op = "getStatus", !.arg = id]
  /\ cbArgs' = NoCb
  /\ UNCHANGED <<runList, nextId, procs, now, issued, startCalls, cancelReq,
                 completion>>

\* Mutant of Cancel: cancel itself marks the record finished with an error.
CancelFinalizes(id) ==
  /\ IF id \notin DOMAIN runList
       THEN /\ resp' = [NoResp EXCEPT !.op = "cancel", !.arg = id,
                                      !.thrown = "NotFound"]
            /\ UNCHANGED <<runList, procs, cancelReq>>
       ELSE /\ procs' = [procs EXCEPT ![id] = Kill(procs[id])]
            /\ runList' =
                 IF runList[id].finished = NoDate
                   THEN [runList EXCEPT ![id].finished = Date(now),
                                        ![id].error = NewError("cancelled")]
                   ELSE runList
            /\ resp' = [NoResp EXCEPT !.op = "cancel", !.arg = id]
            /\ cancelReq' =
                 [cancelReq EXCEPT ![id] =
                    IF procs[id].phase = "running" THEN "live"
                    ELSE IF cancelReq[id] = "never" THEN "dead"
                    ELSE cancelReq[id]]
  /\ cbArgs' = NoCb
  /\ UNCHANGED <<nextId, now, issued, startCalls, completion>>

\* Mutant of Cancel: the signal goes to the process of every registered run.
CancelKillsEvery(id) ==
  /\ IF id \notin DOMAIN runList
       THEN /\ resp' = [NoResp EXCEPT !.op = "cancel", !.arg = id,
                                      !.thrown = "NotFound"]
            /\ UNCHANGED <<procs, cancelReq>>
       ELSE /\ procs' = [x \in DOMAIN procs |-> Kill(procs[x])]
            /\ resp' = [NoResp EXCEPT !.op = "cancel", !.arg = id]
            /\ cancelReq' =
                 [cancelReq EXCEPT ![id] =
                    IF procs[id].phase = "running" THEN "live"
                    ELSE IF cancelReq[id] = "never" THEN "dead"
                    ELSE cancelReq[id]]
  /\ cbArgs' = NoCb
  /\ UNCHANGED <<runList, nextId, now, issued, startCalls, completion>>

\* Mutant of Cancel: an unknown id is ignored instead of throwing NotFound.
CancelUnchecked(id) ==
  /\ IF id \notin DOMAIN runList
       THEN /\ resp' = [NoResp EXCEPT !.op = "cancel", !.arg = id]
            /\ UNCHANGED <<procs, cancelReq>>
       ELSE /\ procs' = [procs EXCEPT ![id] = Kill(procs[id])]
            /\ resp' = [NoResp EXCEPT !.op = "cancel", !.arg = id]
            /\ cancelReq' =
                 [cancelReq EXCEPT ![id] =
                    IF procs[id].phase = "running" THEN "live"
                    ELSE IF cancelReq[id] = "never" THEN "dead"
                    ELSE cancelReq[id]]
  /\ cbArgs' = NoCb
  /\ UNCHANGED <<runList, nextId, now, issued, startCalls, completion>>

\* Dispatcher.cancel
Cancel(id) ==
  /\ IF id \notin DOMAIN runList
       THEN /\ resp' = [NoResp EXCEPT !.op = "cancel", !.arg = id,
                                      !.thrown = "NotFound"]
            /\ UNCHANGED <<procs, cancelReq>>
       ELSE /\ procs' = [procs EXCEPT ![id] = Kill(procs[id])]
            /\ resp' = [NoResp EXCEPT !.op = "cancel", !.arg = id]
            /\ cancelReq' =
                 [cancelReq EXCEPT ![id] =
                    IF procs[id].phase = "running" THEN "live"
                    ELSE IF cancelReq[id] = "never" THEN "dead"
                    ELSE cancelReq[id]]
  /\ cbArgs' = NoCb
  /\ UNCHANGED <<runList, nextId, now, issued, startCalls, completion>>

\* ---------------------------------------------------------------- completion

\* Whether the callback reaches the decoder with these arguments.
DecoderCalled(error, stdout, stderr) ==
  /\ ~Truthy(error)
  /\ ~(~Truthy(stdout) /\ Truthy(stderr))

\* Mutant of OnExit: the error branch returns before finished is set.
OnExitNoFinishOnError(run, error, stdout, stderr, d) ==
  LET fin == [run EXCEPT !.finished = Date(now)] IN
  IF Truthy(error) THEN [run EXCEPT !.error = error]
  ELSE IF ~Truthy(stdout) /\ Truthy(stderr)
    THEN [fin EXCEPT !.error = NewError(stderr)]
  ELSE IF d.throws THEN [fin EXCEPT !.error = d.val]
  ELSE [fin EXCEPT !.result = d.val]

\* Mutant of OnExit: the error branches do not return, so the decoder runs too.
OnExitFallsThrough(run, error, stdout, stderr, d) ==
  LET fin == [run EXCEPT !.finished = Date(now)]
      e1 == IF Truthy(error) THEN [fin EXCEPT !.error = error] ELSE fin
      e2 == IF ~Truthy(stdout) /\ Truthy(stderr)
              THEN [e1 EXCEPT !.error = NewError(stderr)] ELSE e1
  IN IF d.throws THEN [e2 EXCEPT !.error = d.val]
     ELSE [e2 EXCEPT !.result = d.val]

\* Mutant of OnExit: any diagnostic output is an error, whatever stdout holds.
OnExitStderrAlways(run, error, stdout, stderr, d) ==
  LET fin == [run EXCEPT !.finished = Date(now)] IN
  IF Truthy(error) THEN [fin EXCEPT !.error = error]
  ELSE IF Truthy(stderr)
    THEN [fin EXCEPT !.error = NewError(stderr)]
  ELSE IF d.throws THEN [fin EXCEPT !.error = d.val]
  ELSE [fin EXCEPT !.result = d.val]

\* Mutant of OnExit: the reported error is not looked at.
OnExitIgnoresError(run, error, stdout, stderr, d) ==
  LET fin == [run EXCEPT !.finished = Date(now)] IN
  IF ~Truthy(stdout) /\ Truthy(stderr)
    THEN [fin EXCEPT !.error = NewError(stderr)]
  ELSE IF d.throws THEN [fin EXCEPT !.error = d.val]
  ELSE [fin EXCEPT !.result = d.val]

\* The completion callback start hands to execFile, applied to the Run found
\* under the id; d is what module.decodeResult(stdout) does if it is called.
OnExit(run, error, stdout, stderr, d) ==
  LET fin == [run EXCEPT !.finished = Date(now)] IN
  IF Truthy(error) THEN [fin EXCEPT !.error = error]
  ELSE IF ~Truthy(stdout) /\ Truthy(stderr)
    THEN [fin EXCEPT !.error = NewError(stderr)]
  ELSE IF d.throws THEN [fin EXCEPT !.error = d.val]
  ELSE [fin EXCEPT !.result = d.val]

\* The process of run id exits: its handle is closed.
Exit(id) ==
  /\ id \in DOMAIN procs
  /\ procs[id].phase = "running"
  /\ procs' = [procs EXCEPT ![id].phase = "exited"]
  /\ resp' = NoResp
  /\ cbArgs' = NoCb
  /\ UNCHANGED <<runList, nextId, now, issued, startCalls, cancelReq, completion>>

\* execFile runs the completion callback of run id, once, after the exit.
Complete(id) ==
  /\ id \in DOMAIN procs
  /\ procs[id].phase = "exited"
  /\ procs' = [procs EXCEPT ![id].phase = "closed"]
  /\ resp' = NoResp
  /\ \E error \in CbErrors, stdout \in Stdouts, stderr \in Stderrs,
        d \in DecodeOutcomes :
       LET decoded == IF ~DecoderCalled(error, stdout, stderr) THEN "notCalled"
                      ELSE IF d.throws THEN "throws" ELSE d.val
           miss == id \notin DOMAIN runList
       IN
       /\ cbArgs' = [id |-> id, miss |-> miss, error |-> error,
                     stdout |-> stdout, stderr |-> stderr, decoded |-> decoded]
       /\ completion' =
            MapSet(completion, id,
                   [fired |-> TRUE, error |-> error, decoded |-> decoded])
       /\ runList' =
            IF miss THEN runList
            ELSE [runList EXCEPT ![id] = OnExit(runList[id], error, stdout, stderr, d)]
  /\ UNCHANGED <<nextId, now, issued, startCalls, cancelReq>>

\* The clock advances.
Tick ==
  /\ now < MaxTime
  /\ now' = now + 1
  /\ resp' = NoResp
  /\ cbArgs' = NoCb
  /\ UNCHANGED <<runList, nextId, procs, issued, startCalls, cancelReq, completion>>

Next ==
  \/ \E suite \in Suites : Start(suite)
  \/ \E id \in Ids : GetStatusCall(id)
  \/ \E id \in Ids : Cancel(id)
  \/ \E id \in Ids : Exit(id)
  \/ \E id \in Ids : Complete(id)
  \/ Tick

Spec == Init /\ [][Next]_vars

\* ---------------------------------------------------------------- claims

TerminalStatuses == {"completed", "error", "cancelled"}

\* The runs start has registered and returned an id for.
IssuedIds == {issued[i].id : i \in 1..Len(issued)}

\* The completion callback of run id has run.
Fired(id) == completion[id].fired

\* The callback of run id was given an error outcome: a reported error,
\* diagnostic output without standard output, or a decode failure.
ErrorOutcome(id) ==
  \/ Truthy(completion[id].error)
  \/ completion[id].decoded \in {"notCalled", "throws"}

\* C1: once getStatus(id) returns completed, error or cancelled, it returns the
\* same status and the same runtime after every further step (start, getStatus,
\* cancel, exit, completion of any run, clock tick).
C1_TerminalAbsorbing ==
  [][\A id \in Ids :
       LET s == GetStatus(id) IN
       (s.thrown = "none" /\ s.status \in TerminalStatuses)
         => /\ GetStatus(id)'.thrown = "none"
            /\ GetStatus(id)'.status = s.status
            /\ GetStatus(id)'.runtime = s.runtime]_vars

\* C1 witness: getStatus("1") has just returned a terminal status for a run that
\* finished before now, after cancel was called on it and while a second run,
\* already completed too, is registered.
C1_Witness ==
  /\ resp.op = "getStatus" /\ resp.arg = "1"
  /\ resp.status \in TerminalStatuses
  /\ cancelReq["1"] = "dead"
  /\ "2" \in DOMAIN runList /\ Fired("2")
  /\ now > GetTime(runList["1"].finished)

C3_DecodedIsCompleted ==
  \A id \in IssuedIds :
    (Fired(id) /\ completion[id].error = Null
       /\ completion[id].decoded \in ResultValues)
      => /\ GetStatus(id).status = "completed"
         /\ GetStatus(id).result = completion[id].decoded

C5_IdsIncreasing ==
  \A i, j \in 1..Len(issued) :
    i < j => /\ issued[i].id # issued[j].id
             /\ ParseInt(issued[i].id) < ParseInt(issued[j].id)

\* C5 witness: the second id has just been returned, after a failing start and
\* after the first run was cancelled and completed.
C5_Witness ==
  /\ resp.op = "start" /\ resp.thrown = "none" /\ resp.id = "2"
  /\ startCalls > Len(issued)
  /\ cancelReq["1"] # "never" /\ Fired("1")

\* C6: a start call with a suite the catalog does not know throws NotFound and
\* leaves the registry as it was: the records, the processes and the counter,
\* hence also the id the next successful start will return.
C6_UnknownSuiteNoEffect ==
  [][(resp'.op = "start" /\ ~Has(resp'.arg))
       => /\ resp'.thrown = "NotFound"
          /\ UNCHANGED <<runList, procs, nextId>>
          /\ GenerateId'.id = GenerateId.id]_vars

\* C6 witness: a start of an unknown suite has just thrown NotFound in a
\* registry that already holds a run.
C6_Witness ==
  /\ resp.op = "start" /\ resp.arg = "missing" /\ resp.thrown = "NotFound"
  /\ Len(issued) = 1
  /\ "1" \in DOMAIN runList

\* C7 as stated: after n start calls, failing ones included, the counter has
\* advanced from 1 by exactly n.
C7_Original == nextId = 1 + startCalls

\* C7 amended: the counter starts at 1 and has advanced by exactly the number
\* of start calls that succeeded; a failing start does not advance it.
C7_CounterCountsSuccesses ==
  /\ nextId = 1 + Len(issued)
  /\ nextId <= 1 + startCalls

\* C7 witness: two starts have succeeded and at least one has failed.
C7_Witness ==
  /\ Len(issued) >= 2
  /\ startCalls > Len(issued)

\* C8: getStatus and cancel with an id the registry holds no record for throw
\* NotFound, signal no process and leave the records and the counter alone.
C8_UnknownIdNotFound ==
  [][(resp'.op \in {"getStatus", "cancel"} /\ resp'.arg \notin DOMAIN runList)
       => /\ resp'.thrown = "NotFound"
          /\ UNCHANGED <<runList, procs, nextId, cancelReq>>]_vars

\* C8 witness: cancel("2") has just thrown NotFound while run "1" is running.
C8_Witness ==
  /\ resp.op = "cancel" /\ resp.arg = "2" /\ resp.thrown = "NotFound"
  /\ "1" \in DOMAIN procs /\ procs["1"].phase = "running"
  /\ "2" \notin DOMAIN runList

\* C9: from the return of start until the completion callback of the run has
\* run, getStatus(id) succeeds and reports the started suite, status active and
\* a runtime >= 0, with no error and no result.
C9_ActiveUntilCompletion ==
  \A i \in 1..Len(issued) :
    ~Fired(issued[i].id)
      => LET s == GetStatus(issued[i].id) IN
         /\ s.thrown = "none"
         /\ s.suite = issued[i].suite
         /\ s.status = "active"
         /\ s.runtime >= 0
         /\ s.error = Undefined
         /\ s.result = Undefined

\* C9 witness: getStatus has just reported active, with a positive runtime, a
\* run that was cancelled and whose process has exited, before its callback.
C9_Witness ==
  /\ resp.op = "getStatus" /\ resp.status = "active"
  /\ resp.runtime > 0
  /\ ~Fired(resp.arg)
  /\ cancelReq[resp.arg] = "live"
  /\ procs[resp.arg].phase = "exited"

\* C10: a getStatus call, whether it returns or throws NotFound, leaves the
\* map, every record, every process's killed flag and the counter unchanged.
C10_GetStatusPure ==
  [][resp'.op = "getStatus" => UNCHANGED <<runList, procs, nextId>>]_vars

\* C10 witness: getStatus has just reported a completed run while another run,
\* cancelled, is still running.
C10_Witness ==
  /\ resp.op = "getStatus" /\ resp.status = "completed"
  /\ \E id \in IssuedIds :
       id # resp.arg /\ procs[id].phase = "running" /\ procs[id].killed

\* C11: cancel on a registered run leaves the record (finished, result, error)
\* as it was, so that until the completion callback has run getStatus still
\* reports the run active.
C11_CancelOnlySignals ==
  [][\A id \in Ids :
       (resp'.op = "cancel" /\ resp'.arg = id /\ id \in DOMAIN runList)
         => /\ resp'.thrown = "none"
            /\ runList' = runList
            /\ ~Fired(id) => /\ GetStatus(id)'.thrown = "none"
                             /\ GetStatus(id)'.status = "active"]_vars

\* C11 witness: cancel has just signalled a running process, and the run still
\* has no finished timestamp and no outcome.
C11_Witness ==
  /\ resp.op = "cancel" /\ resp.thrown = "none"
  /\ procs[resp.arg].phase = "running" /\ procs[resp.arg].killed
  /\ runList[resp.arg].finished = NoDate
  /\ GetStatus(resp.arg).status = "active"

\* C12: cancel on a run whose completion callback has run returns normally and
\* changes nothing: the registry is as before, and getStatus(id) returns the
\* same status, runtime, error and result as before the cancel.
C12_CancelAfterCompletion ==
  [][\A id \in Ids :
       (resp'.op = "cancel" /\ resp'.arg = id /\ id \in DOMAIN runList
          /\ Fired(id))
         => /\ resp'.thrown = "none"
            /\ UNCHANGED <<runList, procs, nextId>>
            /\ GetStatus(id)' = GetStatus(id)]_vars

\* C12 witness: cancel has just returned for a run that had ended with an error
\* and had not been cancelled before; the run is still reported error.
C12_Witness ==
  /\ resp.op = "cancel" /\ resp.thrown = "none"
  /\ Fired(resp.arg)
  /\ cancelReq[resp.arg] = "dead"
  /\ GetStatus(resp.arg).status = "error"

\* C13 as stated: the runtime getStatus returns is finished - started whenever
\* the record's finished timestamp is set, and now - started otherwise; it is
\* never negative.
C13_RuntimeFormula ==
  \A id \in DOMAIN runList :
    LET run == runList[id]
        s == GetStatus(id)
    IN /\ s.thrown = "none"
       /\ s.runtime >= 0
       /\ s.runtime = IF run.finished # NoDate
                        THEN GetTime(run.finished) - GetTime(run.started)
                        ELSE now - GetTime(run.started)

C15_OnlyCompletionWrites ==
  [][\A id \in DOMAIN runList :
       /\ id \in DOMAIN runList'
       /\ (\/ runList'[id].finished # runList[id].finished
           \/ runList'[id].result # runList[id].result
           \/ runList'[id].error # runList[id].error)
            => /\ cbArgs'.id = id
               /\ ~Fired(id)
               /\ runList[id].finished = NoDate
               /\ runList'[id].finished # NoDate]_vars

\* C15 witness: the callback of run "2" has just run, after that of run "1",
\* whose record holds the outcome it was given.
C15_Witness ==
  /\ cbArgs.id = "2" /\ ~cbArgs.miss
  /\ "1" \in DOMAIN runList /\ Fired("1")
  /\ runList["1"].finished # NoDate /\ runList["1"].error = "ExecError"
  /\ runList["2"].finished # NoDate

\* C16: no record holds both a result and an error, and no getStatus response
\* carries both.
C16_ResultErrorExclusive ==
  \A id \in DOMAIN runList :
    /\ ~(runList[id].result # Undefined /\ runList[id].error # Undefined)
    /\ ~(GetStatus(id).result # Undefined /\ GetStatus(id).error # Undefined)

\* C16 witness: getStatus has just returned a result for one run while another
\* run holds an error.
C16_Witness ==
  /\ resp.op = "getStatus" /\ resp.result = "R1" /\ resp.error = Undefined
  /\ \E id \in DOMAIN runList :
       id # resp.arg /\ runList[id].error = DecodeError

\* C17: the callback run in this step chose the outcome by precedence: a
\* reported error is recorded as it is, whatever the outputs; otherwise empty
\* stdout with non-empty stderr is recorded as an error wrapping stderr, without
\* the decoder being called; otherwise the decoder is called, and its value is
\* recorded as the result or its exception as the error.
C17_OutcomePrecedence ==
  (cbArgs.id # "" /\ ~cbArgs.miss)
    => LET run == runList[cbArgs.id] IN
       IF cbArgs.error # Null
         THEN /\ run.error = cbArgs.error
              /\ run.result = Undefined
              /\ cbArgs.decoded = "notCalled"
       ELSE IF cbArgs.stdout = "" /\ cbArgs.stderr # ""
         THEN /\ run.error = "Error:" \o cbArgs.stderr
              /\ run.result = Undefined
              /\ cbArgs.decoded = "notCalled"
       ELSE IF cbArgs.decoded = "throws"
         THEN /\ run.error = DecodeError
              /\ run.result = Undefined
       ELSE /\ cbArgs.decoded \in ResultValues
            /\ run.result = cbArgs.decoded
            /\ run.error = Undefined

\* C17 witness: the callback has just run with no error and with both outputs
\* non-empty, and the decoded value is the result.
C17_Witness ==
  /\ cbArgs.id # "" /\ cbArgs.error = Null
  /\ cbArgs.stdout = "out" /\ cbArgs.stderr = "boom"
  /\ cbArgs.decoded = "R1"
  /\ runList[cbArgs.id].result = "R1"

\* C18: the callback's lookup never misses: every process start has launched
\* has its record registered, the id start returns is registered, and every id
\* ever issued still has its record.
C18_RecordPresentAtCompletion ==
  /\ ~cbArgs.miss
  /\ DOMAIN procs \subseteq DOMAIN runList
  /\ IssuedIds \subseteq DOMAIN runList
  /\ (resp.op = "start" /\ resp.thrown = "none") => resp.id \in DOMAIN runList

\* C18 witness: the callback of the second run has just found its record, while
\* the first run is still running.
C18_Witness ==
  /\ cbArgs.id = "2" /\ ~cbArgs.miss
  /\ runList["2"].finished # NoDate
  /\ procs["1"].phase = "running"

C20_RunsIsolated ==
  [][(resp'.op \in {"start", "cancel"} \/ cbArgs'.id # "")
       => \A id \in DOMAIN runList :
            (~(resp'.op = "cancel" /\ resp'.arg = id) /\ cbArgs'.id # id)
              => /\ id \in DOMAIN runList'
                 /\ runList'[id] = runList[id]
                 /\ procs'[id] = procs[id]
                 /\ GetStatus(id)'.status = GetStatus(id).status]_vars

\* C20 witness: cancel("2") has just signalled the second run while the first
\* run is still running, unsignalled.
C20_Witness ==
  /\ resp.op = "cancel" /\ resp.arg = "2" /\ resp.thrown = "none"
  /\ procs["2"].killed
  /\ procs["1"].phase = "running" /\ ~procs["1"].killed

====
